---------------------------- MODULE Spec2Model ----------------------------
(***************************************************************************)
(* A model of scripts/stream_bridge.py: the provider stream bridge.        *)
(*                                                                         *)
(* Text is a sequence of tokens.  A token is a one-character string        *)
(* ("a", " ", "\n") or an atomic chunk that the program only copies        *)
(* ("TOOL ", a tool name, a colour escape).  A line read from the child    *)
(* is a record [raw, json]: its raw text and what json.loads yields for    *)
(* its stripped text (NoJson: json.loads raises JSONDecodeError).          *)
(* A JSON value is a record [t, v]: t is the Python type json.loads        *)
(* builds ("dict", "list", "str", "num", "null") and v its content; a      *)
(* dict is the sequence of its <<key, value>> pairs in document order.     *)
(***************************************************************************)
EXTENDS Integers, Sequences, FiniteSets, TLC

VARIABLES
    \* ---- collector and writer (ClaudeCollector, CodexCollector, TuiWriter)
    provider,            \* "claude" | "codex"
    final_text_parts,    \* self.final_text_parts
    stream_text_parts,   \* self.stream_text_parts (ClaudeCollector only)
    raw_fallback,        \* self.raw_fallback
    tool_seen,           \* self._tool_seen
    tui_stream,          \* TuiWriter._stream is not None
    tui_buffer,          \* TuiWriter._buffer
    tty,                 \* what has been written to TuiWriter._stream, one entry per write
    raised,              \* an exception left feed() (name of the exception, or "")
    \* ---- history of the collector (not program state)
    tool_lines,          \* the signature of every _show_tool call that rendered a line
    fed,                 \* the lines fed so far (their indices in the line table)
    clean,               \* a second collector, fed the same lines except those that
                         \*   are not valid JSON
    twin                 \* a third collector, fed the same lines, whose Writer has a
                         \*   sink exactly when this one's has none

VARIABLES
    \* ---- the Preparator applied to an argument list, and to its own output
    arg_in,              \* the argument list handed to prepare_*_args
    arg_out,             \* what prepare_*_args returned for arg_in
    arg_again,           \* what prepare_*_args returned for arg_out.args
    arg_pc               \* "in" | "once" | "twice"

colvars == <<final_text_parts, stream_text_parts, raw_fallback, tool_seen,
             tui_stream, tui_buffer, tty, raised, tool_lines, fed, clean, twin>>

VARIABLES
    \* ---- one run of main(): the bridge, the stderr reader thread and the child
    rest,                \* namespace.args: the arguments after --provider
    bin_found,           \* pick_real_binary found the real binary
    stdin_text,          \* what the program's own stdin holds, in pipe units
    mpc,                 \* where the main path stands
    exit_code,           \* what main() returned, or the status the interpreter
                         \*   exits with after an uncaught exception; -1 before
    stdin_read,          \* sys.stdin.read() was called
    config_args,         \* BridgeConfig.args
    to_write,            \* units of the prompt not yet written to process.stdin
    cstate,              \* the child: "none" | "running" | "exited"
    child_argv,          \* the arguments the child was started with
    child_piped,         \* the child's stdout and stderr are pipes of the bridge
    child_code,          \* the child's exit code, -1 while it has none
    stdin_pipe,          \* units in the child's stdin pipe
    out_pipe,            \* lines in the child's stdout pipe
    err_pipe,            \* chunks in the child's stderr pipe
    n_out, n_err,        \* lines and chunks the child has written
    tpc,                 \* the stderr reader: "none" | "running" | "done"
    stderr_chunks,       \* stderr_chunks
    join_timed_out,      \* stderr_thread.join(timeout=1.0) returned on its timeout
    stdout_w,            \* the writes to sys.stdout, in order
    stderr_w,            \* the writes to sys.stderr, in order
    collector_kind,      \* the Collector constructed: "none" | "claude" | "codex"
    tui_made,            \* a TuiWriter was constructed
    log                  \* history: the steps the main path has completed

VARIABLES
    \* ---- a child with a fixed program (SpecPiped)
    plan                 \* what the child still has to do, in order: "R" read its stdin
                         \*   to end-of-file, "o" write a line to stdout, "e" write a
                         \*   chunk to stderr; then it exits

VARIABLES
    \* ---- main() as far as the worker label (SpecLabel)
    lab_args,            \* args, after the leading "--" was dropped
    lab_stdin,           \* what sys.stdin.read() returns
    lab_cwd,             \* what os.getcwd() returns
    worker_source,       \* worker_source
    worker_label,        \* BridgeConfig.worker_label
    lab_pc               \* "idle" | "start" | "bridge" | "passthrough"

labvars == <<lab_args, lab_stdin, lab_cwd, worker_source, worker_label, lab_pc>>

argvars == <<arg_in, arg_out, arg_again, arg_pc>>

runvars == <<rest, bin_found, stdin_text, mpc, exit_code, stdin_read, config_args,
             to_write, cstate, child_argv, child_piped, child_code, stdin_pipe,
             out_pipe, err_pipe, n_out, n_err, tpc, stderr_chunks, join_timed_out,
             stdout_w, stderr_w, collector_kind, tui_made, log>>

vars == <<provider, colvars, argvars, runvars, plan, labvars>>

-----------------------------------------------------------------------------
(* Bounds of the model *)

MaxLines == 3      \* lines fed to a collector on its own
MaxArgs == 3       \* length of an argument list handed to the Preparator
MaxOut == 2        \* lines a child writes to its stdout
MaxErr == 2        \* chunks a child writes to its stderr
MaxPrompt == 2     \* length of the prompt on the program's stdin, in pipe units
PipeCap == 1       \* what a pipe holds before its writer blocks
MaxPlan == 3       \* operations in the program of a child

-----------------------------------------------------------------------------
(* Python strings *)

NL == "\n"
SP == " "

IsSpace(ch) == ch \in {SP, NL}

RECURSIVE LStrip(_)
LStrip(s) == IF s # <<>> /\ IsSpace(Head(s)) THEN LStrip(Tail(s)) ELSE s

RECURSIVE RStrip(_)
RStrip(s) ==
    IF s # <<>> /\ IsSpace(s[Len(s)]) THEN RStrip(SubSeq(s, 1, Len(s) - 1)) ELSE s

\* str.strip()
Strip(s) == RStrip(LStrip(s))

\* sep.join(parts)
RECURSIVE Join(_, _)
Join(sep, parts) ==
    IF parts = <<>> THEN <<>>
    ELSE IF Len(parts) = 1 THEN parts[1]
    ELSE parts[1] \o sep \o Join(sep, Tail(parts))

\* [part for part in parts if part.strip()]
RECURSIVE NonBlank(_)
NonBlank(parts) ==
    IF parts = <<>> THEN <<>>
    ELSE IF Strip(Head(parts)) # <<>> THEN <<Head(parts)>> \o NonBlank(Tail(parts))
    ELSE NonBlank(Tail(parts))

\* text.endswith("\n")
EndsWithNL(s) == s # <<>> /\ s[Len(s)] = NL

ToolLimit == 90

\* truncate(text, limit)
truncate(text, limit) ==
    IF Len(text) <= limit THEN text
    ELSE SubSeq(text, 1, limit - 3) \o <<".", ".", ".">>


-----------------------------------------------------------------------------
(* JSON values as json.loads builds them *)

JStr(s)   == [t |-> "str",  v |-> s]
JNum(tok) == [t |-> "num",  v |-> <<tok>>]
JDict(ps) == [t |-> "dict", v |-> ps]
JList(xs) == [t |-> "list", v |-> xs]
None      == [t |-> "null", v |-> <<>>]
NoJson    == [t |-> "JSONDecodeError", v |-> <<>>]

\* isinstance(x, dict): only a dict has .get(); calling it on anything else
\* raises AttributeError
IsDict(x) == x.t = "dict"

HasKey(d, k) == \E i \in 1..Len(d.v) : d.v[i][1] = k

\* d.get(k, default)
Get(d, k, default) ==
    IF HasKey(d, k)
    THEN d.v[CHOOSE i \in 1..Len(d.v) :
                 d.v[i][1] = k /\ \A j \in (i + 1)..Len(d.v) : d.v[j][1] # k][2]
    ELSE default

\* x == "literal"
IsStr(x, lit) == x.t = "str" /\ x.v = lit

\* bool(x)
Truthy(x) ==
    CASE x.t = "null" -> FALSE
      [] x.t = "num"  -> x.v # <<"0">>
      [] OTHER        -> x.v # <<>>

\* a or b
Or(a, b) == IF Truthy(a) THEN a ELSE b

\* The keys the modelled documents use, in the order sorted() puts them
KeyOrder == <<"command", "file_path", "id", "input", "name", "type">>

KeyRank(k) == CHOOSE i \in 1..Len(KeyOrder) : KeyOrder[i] = k

\* sorted(d.items()) as json.dumps(sort_keys=True) walks them
RECURSIVE InsertPair(_, _)
InsertPair(p, ps) ==
    IF ps = <<>> THEN <<p>>
    ELSE IF KeyRank(p[1]) <= KeyRank(Head(ps)[1]) THEN <<p>> \o ps
    ELSE <<Head(ps)>> \o InsertPair(p, Tail(ps))

RECURSIVE SortPairs(_)
SortPairs(ps) == IF ps = <<>> THEN <<>> ELSE InsertPair(Head(ps), SortPairs(Tail(ps)))

\* json.dumps(x, sort_keys=True, default=str), as a sequence of tokens
RECURSIVE Dumps(_)
RECURSIVE DumpsPairs(_)
RECURSIVE DumpsItems(_)
Dumps(x) ==
    CASE x.t = "str"  -> <<"\"">> \o x.v \o <<"\"">>
      [] x.t = "num"  -> x.v
      [] x.t = "null" -> <<"null">>
      [] x.t = "dict" -> <<"{">> \o DumpsPairs(SortPairs(x.v)) \o <<"}">>
      [] x.t = "list" -> <<"[">> \o DumpsItems(x.v) \o <<"]">>
DumpsPairs(ps) ==
    IF ps = <<>> THEN <<>>
    ELSE <<"\"", Head(ps)[1], "\"", ": ">> \o Dumps(Head(ps)[2])
         \o (IF Len(ps) > 1 THEN <<", ">> ELSE <<>>) \o DumpsPairs(Tail(ps))
DumpsItems(xs) ==
    IF xs = <<>> THEN <<>>
    ELSE Dumps(Head(xs)) \o (IF Len(xs) > 1 THEN <<", ">> ELSE <<>>)
         \o DumpsItems(Tail(xs))

\* str(x): a str is itself; anything else is its printed form
PyStr(x) ==
    CASE x.t = "str"  -> x.v
      [] x.t = "num"  -> x.v
      [] x.t = "null" -> <<"None">>
      [] OTHER        -> <<"repr">> \o Dumps(x)

-----------------------------------------------------------------------------
(* The collector with its writer, as one record                            *)

Col == [final_text_parts  |-> final_text_parts,
        stream_text_parts |-> stream_text_parts,
        raw_fallback      |-> raw_fallback,
        tool_seen         |-> tool_seen,
        tui_stream        |-> tui_stream,
        tui_buffer        |-> tui_buffer,
        tty               |-> tty,
        raised            |-> raised,
        tool_lines        |-> tool_lines]

Raise(c, exc) == [c EXCEPT !.raised = exc]

-----------------------------------------------------------------------------
(* class Color, TuiWriter *)

RESET == "ESC[0m"
CYAN  == "ESC[36m"
GREEN == "ESC[32m"

\* TuiWriter._prefix(): the dimmed worker label and the provider name
Prefix == <<"[label] provider">>

\* TuiWriter.line(text, color)
TuiLine(c, text, color) ==
    IF ~c.tui_stream THEN c
    ELSE LET payload == IF color # ""
                        THEN Prefix \o <<SP, color>> \o text \o <<RESET, NL>>
                        ELSE Prefix \o <<SP>> \o text \o <<NL>>
         IN  [c EXCEPT !.tty = Append(@, payload)]

\* index of the first "\n" of s, 0 when there is none
FirstNL(s) ==
    IF \E i \in 1..Len(s) : s[i] = NL
    THEN CHOOSE i \in 1..Len(s) : s[i] = NL /\ \A j \in 1..(i - 1) : s[j] # NL
    ELSE 0

\* the while loop of text_chunk: emit every complete line of the buffer
RECURSIVE DrainLines(_)
DrainLines(c) ==
    LET i == FirstNL(c.tui_buffer) IN
    IF i = 0 THEN c
    ELSE DrainLines(TuiLine([c EXCEPT !.tui_buffer = SubSeq(@, i + 1, Len(@))],
                            SubSeq(c.tui_buffer, 1, i - 1), ""))

\* (mutant) the chunk is buffered whether or not a sink is attached
TuiTextChunkUnguarded(c, chunk) ==
    IF chunk = <<>> THEN c
    ELSE DrainLines([c EXCEPT !.tui_buffer = @ \o chunk])

\* TuiWriter.text_chunk(chunk)
TuiTextChunk(c, chunk) ==
    IF ~c.tui_stream \/ chunk = <<>> THEN c
    ELSE DrainLines([c EXCEPT !.tui_buffer = @ \o chunk])

\* TuiWriter.flush()
TuiFlush(c) ==
    IF ~c.tui_stream THEN c
    ELSE IF c.tui_buffer # <<>>
         THEN [TuiLine(c, c.tui_buffer, "") EXCEPT !.tui_buffer = <<>>]
         ELSE c

-----------------------------------------------------------------------------
(* class ClaudeCollector *)

\* self.tui.line(...) from a tool display, with the history of what rendered
RenderTool(c, key, text) ==
    [TuiLine(c, text, CYAN) EXCEPT
        !.tool_lines = IF c.tui_stream THEN Append(@, key) ELSE @]

\* the signature _show_tool builds: (name, json.dumps(payload, sort_keys=True))
ToolKey(name, payload) == <<name, Dumps(payload)>>

\* (mutant) the seen-set is never consulted
AlreadyShownNever(c, key) == FALSE

\* "if key in self._tool_seen: return"
AlreadyShown(c, key) == key \in c.tool_seen

\* ClaudeCollector._show_tool(name, payload)
ShowTool(c, name, payload) ==
    LET key == ToolKey(name, payload) IN
    IF AlreadyShown(c, key) THEN c
    ELSE LET c1 == [c EXCEPT !.tool_seen = @ \cup {key}] IN
         IF IsDict(payload)
         THEN LET file_path == Get(payload, "file_path", None)
                  command   == Get(payload, "command", None)
              IN  IF Truthy(file_path)
                  THEN RenderTool(c1, key,
                           <<"TOOL ">> \o name \o <<": ">> \o PyStr(file_path))
                  ELSE IF Truthy(command)
                  THEN IF command.t = "num"
                       THEN Raise(c1, "TypeError")     \* len() of a number
                       ELSE RenderTool(c1, key,
                                <<"TOOL ">> \o name \o <<": ">>
                                \o (IF command.t = "str"
                                    THEN truncate(command.v, ToolLimit)
                                    ELSE PyStr(command)))
                  ELSE RenderTool(c1, key, <<"TOOL ">> \o name)
         ELSE RenderTool(c1, key, <<"TOOL ">> \o name)

\* the body of "for block in message.get('content', [])" for one block
AssistantBlock(c, block) ==
    IF ~IsDict(block) THEN Raise(c, "AttributeError")
    ELSE LET kind == Get(block, "type", None) IN
         IF IsStr(kind, <<"text">>)
         THEN LET text == PyStr(Get(block, "text", JStr(<<>>))) IN
              IF text # <<>>
              THEN [c EXCEPT !.final_text_parts = Append(@, text)]
              ELSE c
         ELSE IF IsStr(kind, <<"tool_use">>)
         THEN ShowTool(c, PyStr(Get(block, "name", JStr(<<"tool">>))),
                       Get(block, "input", JDict(<<>>)))
         ELSE c

RECURSIVE AssistantBlocks(_, _)
AssistantBlocks(c, blocks) ==
    IF blocks = <<>> \/ c.raised # "" THEN c
    ELSE AssistantBlocks(AssistantBlock(c, Head(blocks)), Tail(blocks))

\* what "for block in content" iterates over: the items of a list; the keys of a
\* dict and the characters of a str (neither has .get); nothing else is iterable
AssistantContent(c, content) ==
    CASE content.t = "list" -> AssistantBlocks(c, content.v)
      [] content.t \in {"dict", "str"} ->
            IF content.v = <<>> THEN c ELSE Raise(c, "AttributeError")
      [] OTHER -> Raise(c, "TypeError")

\* the "stream_event" branch of ClaudeCollector.feed
ClaudeStreamEvent(c, event) ==
    LET inner == Get(event, "event", JDict(<<>>)) IN
    IF ~IsDict(inner) THEN Raise(c, "AttributeError")
    ELSE LET event_type == Get(inner, "type", None) IN
         IF IsStr(event_type, <<"content_block_start">>)
         THEN LET block == Get(inner, "content_block", JDict(<<>>)) IN
              IF ~IsDict(block) THEN Raise(c, "AttributeError")
              ELSE IF IsStr(Get(block, "type", None), <<"tool_use">>)
                   THEN ShowTool(c, PyStr(Get(block, "name", JStr(<<"tool">>))), block)
                   ELSE c
         ELSE IF IsStr(event_type, <<"content_block_delta">>)
         THEN LET delta == Get(inner, "delta", JDict(<<>>)) IN
              IF ~IsDict(delta) THEN Raise(c, "AttributeError")
              ELSE IF IsStr(Get(delta, "type", None), <<"text_delta">>)
                   THEN LET text == PyStr(Get(delta, "text", JStr(<<>>))) IN
                        IF text # <<>>
                        THEN TuiTextChunk(
                                 [c EXCEPT !.stream_text_parts = Append(@, text)], text)
                        ELSE c
                   ELSE c
         ELSE IF IsStr(event_type, <<"content_block_stop">>)
         THEN TuiFlush(c)
         ELSE c

\* (mutant) the stripped text is kept instead of the line as read
FeedMalformedStripped(c, line) == [c EXCEPT !.raw_fallback = Append(@, Strip(line.raw))]

\* the "except json.JSONDecodeError" branch of feed, both collectors
FeedMalformed(c, line) == [c EXCEPT !.raw_fallback = Append(@, line.raw)]

\* ClaudeCollector.feed(line)
ClaudeFeed(c, line) ==
    IF Strip(line.raw) = <<>> THEN c
    ELSE IF line.json.t = "JSONDecodeError" THEN FeedMalformed(c, line)
    ELSE LET event == line.json IN
         IF ~IsDict(event) THEN Raise(c, "AttributeError")
         ELSE IF IsStr(Get(event, "type", None), <<"stream_event">>)
         THEN ClaudeStreamEvent(c, event)
         ELSE IF IsStr(Get(event, "type", None), <<"assistant">>)
         THEN LET message == Get(event, "message", JDict(<<>>)) IN
              IF ~IsDict(message) THEN Raise(c, "AttributeError")
              ELSE AssistantContent(c, Get(message, "content", JList(<<>>)))
         ELSE IF /\ IsStr(Get(event, "type", None), <<"result">>)
                 /\ IsStr(Get(event, "subtype", None), <<"error">>)
         THEN LET err == PyStr(Or(Get(event, "error", None),
                                  Or(Get(event, "result", None),
                                     JStr(<<"Claude error">>))))
              IN  [c EXCEPT !.raw_fallback = Append(@, err \o <<NL>>)]
         ELSE c

\* "\n".join(part for part in self.final_text_parts if part.strip()).strip()
JoinFinal(parts) == Strip(Join(<<NL>>, NonBlank(parts)))

\* "".join(parts).strip()
JoinPlain(parts) == Strip(Join(<<>>, parts))

\* (mutant) the finalized channel is taken only when its joined text is non-empty
UseFinalizedJoined(parts) == JoinFinal(parts) # <<>>

\* whether final_text takes its first branch: "if self.final_text_parts:"
UseFinalized(parts) == parts # <<>>

\* ClaudeCollector.final_text()
ClaudeFinalText(c) ==
    IF UseFinalized(c.final_text_parts) THEN JoinFinal(c.final_text_parts)
    ELSE LET streamed == JoinPlain(c.stream_text_parts) IN
         IF streamed # <<>> THEN streamed
         ELSE JoinPlain(c.raw_fallback)

-----------------------------------------------------------------------------
(* class CodexCollector *)

FileChangeLimit == 120

\* CodexCollector._show_started(item)
ShowStarted(c, item) ==
    LET kind == Get(item, "type", None) IN
    IF IsStr(kind, <<"command_execution">>)
    THEN TuiLine(c, <<"TOOL shell: ">>
                    \o truncate(PyStr(Get(item, "command", JStr(<<>>))), ToolLimit), CYAN)
    ELSE IF IsStr(kind, <<"web_search">>)
    THEN TuiLine(c, <<"TOOL web_search">>, CYAN)
    ELSE IF IsStr(kind, <<"mcp_tool_call">>)
    THEN TuiLine(c, <<"TOOL ">> \o PyStr(Get(item, "name", JStr(<<"mcp_tool">>))), CYAN)
    ELSE c

\* f"{c.get('kind', '?')}:{c.get('path', '?')}" for c in changes if isinstance(c, dict)
RECURSIVE RenderChanges(_)
RenderChanges(changes) ==
    IF changes = <<>> THEN <<>>
    ELSE IF IsDict(Head(changes))
    THEN <<PyStr(Get(Head(changes), "kind", JStr(<<"?">>))) \o <<":">>
           \o PyStr(Get(Head(changes), "path", JStr(<<"?">>)))>>
         \o RenderChanges(Tail(changes))
    ELSE RenderChanges(Tail(changes))

\* CodexCollector._show_completed(item)
ShowCompleted(c, item) ==
    LET kind == Get(item, "type", None) IN
    IF IsStr(kind, <<"agent_message">>)
    THEN LET text == PyStr(Get(item, "text", JStr(<<>>))) IN
         IF text # <<>>
         THEN TuiFlush(TuiTextChunk(
                  [c EXCEPT !.final_text_parts = Append(@, text)], text))
         ELSE c
    ELSE IF IsStr(kind, <<"command_execution">>)
    THEN LET code == Get(item, "exit_code", None)
             suffix == IF code.t = "null" \/ (code.t = "num" /\ code.v = <<"0">>)
                       THEN <<>>
                       ELSE <<" (exit ">> \o PyStr(code) \o <<")">>
         IN  TuiLine(c, <<"DONE shell">> \o suffix, GREEN)
    ELSE IF IsStr(kind, <<"file_change">>)
    THEN LET changes == Or(Get(item, "changes", None), JList(<<>>)) IN
         IF changes.t = "list" /\ changes.v # <<>>
         THEN TuiLine(c, <<"DONE file_change: ">>
                         \o truncate(Join(<<", ">>, RenderChanges(changes.v)),
                                     FileChangeLimit), GREEN)
         ELSE TuiLine(c, <<"DONE file_change">>, GREEN)
    ELSE IF IsStr(kind, <<"web_search">>)
    THEN TuiLine(c, <<"DONE web_search">>, GREEN)
    ELSE c

\* CodexCollector.feed(line)
CodexFeed(c, line) ==
    IF Strip(line.raw) = <<>> THEN c
    ELSE IF line.json.t = "JSONDecodeError" THEN FeedMalformed(c, line)
    ELSE LET event == line.json IN
         IF ~IsDict(event) THEN Raise(c, "AttributeError")
         ELSE LET event_type == Get(event, "type", None) IN
              IF IsStr(event_type, <<"item.started">>)
              THEN LET item == Get(event, "item", None) IN
                   IF IsDict(item) THEN ShowStarted(c, item) ELSE c
              ELSE IF IsStr(event_type, <<"item.completed">>)
              THEN LET item == Get(event, "item", None) IN
                   IF IsDict(item) THEN ShowCompleted(c, item) ELSE c
              ELSE IF IsStr(event_type, <<"turn.failed">>)
              THEN LET err == PyStr(Get(event, "error", JStr(<<"Codex turn failed">>)))
                   IN  [c EXCEPT !.raw_fallback = Append(@, err \o <<NL>>)]
              ELSE c

\* CodexCollector.final_text()
CodexFinalText(c) ==
    IF UseFinalized(c.final_text_parts) THEN JoinFinal(c.final_text_parts)
    ELSE JoinPlain(c.raw_fallback)

\* collector.feed / collector.final_text of the variant run_bridge constructed
Feed(p, c, line) == IF p = "claude" THEN ClaudeFeed(c, line) ELSE CodexFeed(c, line)

FinalText(p, c) == IF p = "claude" THEN ClaudeFinalText(c) ELSE CodexFinalText(c)

-----------------------------------------------------------------------------
(* The Argument Preparator *)

\* (mutant) a flag is always taken to be missing
NotInAlways(token, arg_list) == TRUE

\* token not in arg_list
NotIn(token, arg_list) == \A i \in 1..Len(arg_list) : arg_list[i] # token

\* arg_list.index(token), for a token that occurs
IndexOf(token, arg_list) ==
    CHOOSE i \in 1..Len(arg_list) :
        arg_list[i] = token /\ \A j \in 1..(i - 1) : arg_list[j] # token

\* prepare_claude_args(args)
prepare_claude_args(args) ==
    LET is_prompt_mode == ~NotIn("-p", args) \/ ~NotIn("--print", args)
        l1 == IF NotIn("--verbose", args) THEN Append(args, "--verbose") ELSE args
        l2 == IF NotIn("--output-format", l1)
              THEN l1 \o <<"--output-format", "stream-json">> ELSE l1
        l3 == IF NotIn("--include-partial-messages", l2)
              THEN Append(l2, "--include-partial-messages") ELSE l2
    IN  IF ~is_prompt_mode
        THEN [args |-> args, use_bridge |-> FALSE, prompt_text |-> ""]
        ELSE [args |-> l3, use_bridge |-> TRUE, prompt_text |-> ""]

\* prepare_codex_args(args)
prepare_codex_args(args) ==
    IF args = <<>> \/ args[1] # "exec"
    THEN [args |-> args, use_bridge |-> FALSE, prompt_text |-> ""]
    ELSE LET has_marker == ~NotIn("--", args)
             marker_index == IndexOf("--", args)
             prompt_text == IF has_marker /\ marker_index + 1 <= Len(args)
                            THEN args[marker_index + 1] ELSE ""
             arg_list == IF NotIn("--json", args)
                         THEN IF has_marker
                              THEN SubSeq(args, 1, marker_index - 1) \o <<"--json">>
                                   \o SubSeq(args, marker_index, Len(args))
                              ELSE Append(args, "--json")
                         ELSE args
         IN  [args |-> arg_list, use_bridge |-> TRUE, prompt_text |-> prompt_text]

\* the Preparator main() calls for the provider
Prepare(p, args) ==
    IF p = "claude" THEN prepare_claude_args(args) ELSE prepare_codex_args(args)

-----------------------------------------------------------------------------
(* The lines a child may print *)

Txt(raw)        == [raw |-> raw, json |-> NoJson]
Doc(value)      == [raw |-> <<"json", NL>>, json |-> value]
Obj(type, more) == JDict(<<<<"type", JStr(<<type>>)>>>> \o more)

hello == <<"h", "e", "l", "l", "o">>
world == <<"w", "o", "r", "l", "d">>

\* a tool_use content block as both envelopes carry it
BashBlock == Obj("tool_use", << <<"id", JStr(<<"t1">>)>>,
                                <<"name", JStr(<<"Bash">>)>>,
                                <<"input", JDict(<< <<"command", JStr(<<"l", "s">>)>> >>)>> >>)
\* two spellings of one Edit call: the input's keys in either order
EditInputA == JDict(<< <<"file_path", JStr(<<"f">>)>>, <<"command", JStr(<<"e">>)>> >>)
EditInputB == JDict(<< <<"command", JStr(<<"e">>)>>, <<"file_path", JStr(<<"f">>)>> >>)
EditBlock(input) == Obj("tool_use", << <<"name", JStr(<<"Edit">>)>>, <<"input", input>> >>)
\* a Bash call whose command spans two lines
ScriptBlock == Obj("tool_use", << <<"name", JStr(<<"Bash">>)>>,
                                  <<"input", JDict(<< <<"command", JStr(<<"a", NL, "b">>)>> >>)>> >>)

StreamEvent(inner)  == Doc(Obj("stream_event", << <<"event", inner>> >>))
TextDelta(text)     == StreamEvent(Obj("content_block_delta",
                           << <<"delta", Obj("text_delta", << <<"text", JStr(text)>> >>)>> >>))
BlockStart(block)   == StreamEvent(Obj("content_block_start", << <<"content_block", block>> >>))
Assistant(blocks)   == Doc(Obj("assistant",
                           << <<"message", JDict(<< <<"content", JList(blocks)>> >>)>> >>))
TextBlock(text)     == Obj("text", << <<"text", JStr(text)>> >>)

ClaudeLines ==
    << Txt(<<NL>>),                                  \*  1 a blank line
       Txt(<<SP, "x", NL>>),                         \*  2 not JSON
       TextDelta(<<"a", "b">>),                      \*  3
       TextDelta(<<"c", "d">>),                      \*  4
       TextDelta(<<SP>>),                            \*  5 a whitespace-only delta
       TextDelta(<<"a", NL, "b">>),                  \*  6 a delta holding a line break
       StreamEvent(Obj("content_block_stop", <<>>)), \*  7
       Assistant(<<TextBlock(hello)>>),              \*  8
       Assistant(<<TextBlock(world)>>),              \*  9
       Assistant(<<TextBlock(<<SP>>)>>),             \* 10 a whitespace-only text block
       BlockStart(BashBlock),                        \* 11
       Assistant(<<BashBlock>>),                     \* 12 the same block, completed
       Assistant(<<EditBlock(EditInputA)>>),         \* 13
       Assistant(<<EditBlock(EditInputB)>>),         \* 14
       Doc(Obj("result", << <<"subtype", JStr(<<"error">>)>>,
                            <<"error", JStr(<<"boom">>)>> >>)),   \* 15
       Doc(Obj("system", <<>>)),                     \* 16 an unrecognised kind
       Doc(JNum("5")),                               \* 17 valid JSON, not an object
       Assistant(<<ScriptBlock>>) >>                 \* 18 a tool call with a two-line command

Item(kind, type, more) == Doc(Obj(kind, << <<"item", Obj(type, more)>> >>))

CodexLines ==
    << Txt(<<NL>>),                                                      \* 1
       Txt(<<SP, "x", NL>>),                                             \* 2
       Item("item.completed", "agent_message", << <<"text", JStr(<<"done">>)>> >>),  \* 3
       Item("item.completed", "agent_message", << <<"text", JStr(<<SP>>)>> >>),      \* 4
       Item("item.completed", "agent_message", << <<"text", JStr(<<"a", NL, "b">>)>> >>),
       Item("item.started", "command_execution", << <<"command", JStr(<<"l", "s">>)>> >>),
       Item("item.completed", "command_execution", << <<"exit_code", JNum("1")>> >>),
       Item("item.completed", "file_change",
            << <<"changes", JList(<<JDict(<< <<"kind", JStr(<<"add">>)>>,
                                             <<"path", JStr(<<"f">>)>> >>)>>)>> >>),
       Item("item.started", "web_search", <<>>),
       Doc(Obj("turn.failed", << <<"error", JStr(<<"boom">>)>> >>)),     \* 10
       Doc(JNum("5")),                                                   \* 11
       Doc(Obj("thread.started", <<>>)) >>                               \* 12

LinesOf(p) == IF p = "claude" THEN ClaudeLines ELSE CodexLines

\* json.loads raises JSONDecodeError on the line (a blank line never reaches it)
Malformed(line) == line.json.t = "JSONDecodeError"

-----------------------------------------------------------------------------
(* A collector on its own: any sequence of lines, fed one by one *)

NewCollector(stream) ==
    [final_text_parts |-> <<>>, stream_text_parts |-> <<>>, raw_fallback |-> <<>>,
     tool_seen |-> {}, tui_stream |-> stream, tui_buffer |-> <<>>, tty |-> <<>>,
     raised |-> "", tool_lines |-> <<>>]

SetCol(c) ==
    /\ final_text_parts' = c.final_text_parts
    /\ stream_text_parts' = c.stream_text_parts
    /\ raw_fallback' = c.raw_fallback
    /\ tool_seen' = c.tool_seen
    /\ tui_stream' = c.tui_stream
    /\ tui_buffer' = c.tui_buffer
    /\ tty' = c.tty
    /\ raised' = c.raised
    /\ tool_lines' = c.tool_lines

\* the collector as __init__ leaves it, with no line fed
ColIdle(stream) ==
    /\ tui_stream = stream
    /\ final_text_parts = <<>>
    /\ stream_text_parts = <<>>
    /\ raw_fallback = <<>>
    /\ tool_seen = {}
    /\ tui_buffer = <<>>
    /\ tty = <<>>
    /\ raised = ""
    /\ tool_lines = <<>>
    /\ fed = <<>>
    /\ clean = NewCollector(stream)
    /\ twin = NewCollector(~stream)

NoArgs == [args |-> <<>>, use_bridge |-> FALSE, prompt_text |-> ""]

ArgIdle == arg_in = <<>> /\ arg_out = NoArgs /\ arg_again = NoArgs /\ arg_pc = "idle"

\* main() has not looked for a label
LabIdle ==
    /\ lab_args = <<>> /\ lab_stdin = <<>> /\ lab_cwd = <<>>
    /\ worker_source = <<>> /\ worker_label = <<>> /\ lab_pc = "idle"

\* main() not entered
RunIdle ==
    /\ rest = <<>> /\ bin_found = FALSE /\ stdin_text = 0
    /\ mpc = "idle" /\ exit_code = -1 /\ stdin_read = FALSE
    /\ config_args = <<>> /\ to_write = 0
    /\ cstate = "none" /\ child_argv = <<>> /\ child_piped = FALSE /\ child_code = -1
    /\ stdin_pipe = 0 /\ out_pipe = <<>> /\ err_pipe = <<>> /\ n_out = 0 /\ n_err = 0
    /\ tpc = "none" /\ stderr_chunks = <<>> /\ join_timed_out = FALSE
    /\ stdout_w = <<>> /\ stderr_w = <<>>
    /\ collector_kind = "none" /\ tui_made = FALSE /\ log = <<>>
    /\ plan = <<>>
    /\ LabIdle

InitCollector ==
    /\ provider \in {"claude", "codex"}
    /\ \E stream \in BOOLEAN : ColIdle(stream)
    /\ ArgIdle
    /\ RunIdle

\* collector.feed(line) for the next line of the child's output
FeedLine(p, i) ==
    /\ provider = p
    /\ raised = ""
    /\ Len(fed) < MaxLines
    /\ SetCol(Feed(p, Col, LinesOf(p)[i]))
    /\ fed' = Append(fed, i)
    /\ clean' = IF Malformed(LinesOf(p)[i]) \/ clean.raised # "" THEN clean
                ELSE Feed(p, clean, LinesOf(p)[i])
    /\ twin' = IF twin.raised # "" THEN twin ELSE Feed(p, twin, LinesOf(p)[i])
    /\ UNCHANGED <<provider, plan, labvars, argvars, runvars>>

ClaudeFeedLine == \E i \in 1..Len(ClaudeLines) : FeedLine("claude", i)

CodexFeedLine == \E i \in 1..Len(CodexLines) : FeedLine("codex", i)

NextCollector == ClaudeFeedLine \/ CodexFeedLine

SpecCollector == InitCollector /\ [][NextCollector]_vars

-----------------------------------------------------------------------------
(* Properties of the collectors (SpecCollector) *)

TheFinalText == FinalText(provider, Col)

HasStreamChannel == provider = "claude"

\* C1 (as stated): final_text() is built from one channel chosen by strict
\* priority: from the finalized fragments alone whenever one was recorded;
\* otherwise, for Provider A, from the streamed fragments alone whenever one
\* was recorded; otherwise from the raw fallback lines alone.
C1_StrictPriority ==
    /\ final_text_parts # <<>> => TheFinalText = JoinFinal(final_text_parts)
    /\ (final_text_parts = <<>> /\ HasStreamChannel /\ stream_text_parts # <<>>)
          => TheFinalText = JoinPlain(stream_text_parts)
    /\ (final_text_parts = <<>> /\ (HasStreamChannel => stream_text_parts = <<>>))
          => TheFinalText = JoinPlain(raw_fallback)

\* C1 (amended): final_text() is built from one channel: from the finalized
\* fragments alone whenever one was recorded; otherwise, for Provider A, from
\* the streamed fragments alone whenever their trimmed concatenation is
\* non-empty; otherwise from the raw fallback lines alone.
C1_PriorityByTrimmedStream ==
    /\ final_text_parts # <<>> => TheFinalText = JoinFinal(final_text_parts)
    /\ (final_text_parts = <<>> /\ HasStreamChannel
          /\ Strip(Join(<<>>, stream_text_parts)) # <<>>)
          => TheFinalText = Strip(Join(<<>>, stream_text_parts))
    /\ (final_text_parts = <<>>
          /\ (HasStreamChannel => Strip(Join(<<>>, stream_text_parts)) = <<>>))
          => TheFinalText = Strip(Join(<<>>, raw_fallback))

\* all three channels hold text and the answer is the finalized one
C1_Witness ==
    /\ provider = "claude"
    /\ final_text_parts # <<>> /\ stream_text_parts # <<>> /\ raw_fallback # <<>>
    /\ TheFinalText = hello

\* C2: for Provider A the answer is the trimmed newline-join of the finalized
\* fragments; if that is empty, the trimmed concatenation of the streamed
\* fragments; if that is empty too, the trimmed join of the raw fallback lines.
\* "hello" then "world" give "hello\nworld"; deltas "ab" then "cd" give "abcd".
C2_Resolution ==
    provider = "claude" =>
       /\ TheFinalText =
             IF JoinFinal(final_text_parts) # <<>> THEN JoinFinal(final_text_parts)
             ELSE IF JoinPlain(stream_text_parts) # <<>> THEN JoinPlain(stream_text_parts)
             ELSE JoinPlain(raw_fallback)
       /\ fed = <<8, 9>> => TheFinalText = hello \o <<NL>> \o world
       /\ fed = <<3, 4>> => TheFinalText = <<"a", "b", "c", "d">>

\* the display lines of tty that announce a tool
IsToolLine(payload) == Len(payload) >= 4 /\ payload[3] = CYAN /\ payload[4] = "TOOL "

ToolLineCount == Cardinality({i \in 1..Len(tty) : IsToolLine(tty[i])})

NoSignatureTwice ==
    /\ \A i, j \in 1..Len(tool_lines) : tool_lines[i] = tool_lines[j] => i = j
    /\ \A i \in 1..Len(tool_lines) : tool_lines[i] \in tool_seen
    /\ ToolLineCount = Len(tool_lines)

\* C6: for Provider A each tool signature renders at most one TOOL line: a
\* signature once in the seen-set stays there, and a later _show_tool call with
\* it renders nothing.
C6_ToolOncePerSignature ==
    [][provider = "claude" => (tool_seen \subseteq tool_seen' /\ NoSignatureTwice')]_vars

\* one signature was offered twice (key order of the input differing) and
\* rendered once
C6_Witness ==
    /\ provider = "claude" /\ tui_stream
    /\ fed = <<13, 14>>
    /\ Cardinality(tool_seen) = 1 /\ ToolLineCount = 1

\* C7: with a sink, the identical tool_use block fed twice renders exactly one
\* TOOL line, whether both arrive in content_block_start envelopes, both in
\* assistant envelopes, or one in each.
C7_SameBlockOneLine ==
    (provider = "claude" /\ tui_stream
       /\ fed \in {<<11, 11>>, <<12, 12>>, <<11, 12>>, <<12, 11>>})
    => ToolLineCount = 1

\* the step that fed line i of the table
FedStep(i) == fed' = Append(fed, i)

Blank(line) == Strip(line.raw) = <<>>

CollectorFrame ==
    /\ UNCHANGED <<final_text_parts, stream_text_parts, tool_seen, tui_stream,
                   tui_buffer, tty>>
    /\ raised' = ""

FollowsClean ==
    /\ final_text_parts = clean.final_text_parts
    /\ stream_text_parts = clean.stream_text_parts

\* C8 (as stated): feeding a line that is not valid JSON never raises, appends
\* the line verbatim to the raw fallback and changes nothing else; the
\* finalized and streamed sequences equal those of the same lines with the
\* malformed ones removed.
C8_MalformedAppended ==
    [][\A i \in 1..Len(LinesOf(provider)) :
          (FedStep(i) /\ Malformed(LinesOf(provider)[i])) =>
             /\ raw_fallback' = Append(raw_fallback, LinesOf(provider)[i].raw)
             /\ CollectorFrame
             /\ FollowsClean']_vars

\* C8 (amended): feeding a line that is not valid JSON never raises; when the
\* line is not blank it is appended verbatim to the raw fallback, when it is
\* blank (whitespace only) nothing is appended; nothing else changes, and the
\* finalized and streamed sequences equal those of the same lines with the
\* malformed ones removed.
C8_MalformedAppendedUnlessBlank ==
    [][\A i \in 1..Len(LinesOf(provider)) :
          (FedStep(i) /\ Malformed(LinesOf(provider)[i])) =>
             /\ raw_fallback' = IF Blank(LinesOf(provider)[i]) THEN raw_fallback
                                ELSE Append(raw_fallback, LinesOf(provider)[i].raw)
             /\ CollectorFrame
             /\ FollowsClean']_vars

\* a malformed line was kept as read, between two well-formed events
C8_Witness ==
    /\ Len(fed) = 3 /\ fed[2] = 2 /\ raised = ""
    /\ raw_fallback = <<<<SP, "x", NL>>>>
    /\ Len(final_text_parts) = 2

\* a write that holds exactly one display line, newline-terminated
OneDisplayLine(payload) ==
    /\ EndsWithNL(payload)
    /\ \A i \in 1..(Len(payload) - 1) : payload[i] # NL

\* the display line TuiWriter.line() makes of plain text
PlainLine(text) == Prefix \o <<SP>> \o text \o <<NL>>

\* C11: with a sink, every write to the sink is exactly one newline-terminated
\* display line; text received through text_chunk and not yet followed by a
\* newline stays in the pending buffer, which holds no newline once text_chunk
\* has returned, and reaches the sink only through flush(), which leaves the
\* buffer empty.
C11_WholeLinesAndPendingText ==
    [][(provider = "claude" /\ tui_stream) =>
          /\ \A i \in 1..Len(tty') : OneDisplayLine(tty'[i])
          /\ \A i \in 1..Len(tui_buffer') : tui_buffer'[i] # NL
          /\ FedStep(3) => (tui_buffer' = tui_buffer \o <<"a", "b">> /\ tty' = tty)
          /\ FedStep(7) =>
                /\ tui_buffer' = <<>>
                /\ tty' = IF tui_buffer = <<>> THEN tty
                          ELSE Append(tty, PlainLine(tui_buffer))]_vars

\* text s begins with text t
StartsWith(s, t) == Len(s) >= Len(t) /\ SubSeq(s, 1, Len(t)) = t

\* C12: display lines reach the sink in the arrival order of the events that
\* produced them: when an event makes the Writer write while text of an earlier
\* event is still pending, the first line written begins with that pending
\* text, so earlier text is never displayed after a line (e.g. a TOOL line) of
\* a later event.
C12_ArrivalOrder ==
    [][(tui_stream /\ tui_buffer # <<>> /\ Len(tty') > Len(tty)) =>
          StartsWith(tty'[Len(tty) + 1], Prefix \o <<SP>> \o tui_buffer)]_vars

\* the lines of the tables that are well-formed JSON but no recognised event:
\* an unknown kind, and a value that is not an object
Unrecognised(p) == IF p = "claude" THEN {16, 17} ELSE {11, 12}

\* C18: for both collectors feed() never raises, whatever the line, and a
\* well-formed JSON line that is no recognised event (an unknown kind, a value
\* that is not an object) leaves the collector and the Writer as they were.
C18_NeverRaisesIgnoresUnknown ==
    [][\A i \in 1..Len(LinesOf(provider)) :
          FedStep(i) =>
             /\ raised' = ""
             /\ i \in Unrecognised(provider) =>
                   (CollectorFrame /\ UNCHANGED raw_fallback)]_vars

-----------------------------------------------------------------------------
(* The Preparator on its own: any argument list, prepared, then prepared again *)

ClaudeTokens == {"-p", "--print", "--verbose", "--output-format", "stream-json",
                 "--include-partial-messages", "x"}

CodexTokens == {"exec", "--", "--json", "-C", "x"}

TokensOf(p) == IF p = "claude" THEN ClaudeTokens ELSE CodexTokens

ArgLists(p) == UNION {[1..n -> TokensOf(p)] : n \in 0..MaxArgs}

InitArgs ==
    /\ provider \in {"claude", "codex"}
    /\ arg_in \in ArgLists(provider)
    /\ arg_out = NoArgs /\ arg_again = NoArgs /\ arg_pc = "in"
    /\ ColIdle(FALSE)
    /\ RunIdle

PrepareOnce ==
    /\ arg_pc = "in"
    /\ arg_out' = Prepare(provider, arg_in)
    /\ arg_pc' = "once"
    /\ UNCHANGED <<provider, plan, labvars, colvars, runvars, arg_in, arg_again>>

PrepareAgain ==
    /\ arg_pc = "once"
    /\ arg_again' = Prepare(provider, arg_out.args)
    /\ arg_pc' = "twice"
    /\ UNCHANGED <<provider, plan, labvars, colvars, runvars, arg_in, arg_out>>

NextArgs == PrepareOnce \/ PrepareAgain

SpecArgs == InitArgs /\ [][NextArgs]_vars

Count(token, arg_list) == Cardinality({i \in 1..Len(arg_list) : arg_list[i] = token})

\* a is b with some elements left out, the rest in order
RECURSIVE IsSubsequence(_, _)
IsSubsequence(a, b) ==
    IF a = <<>> THEN TRUE
    ELSE IF b = <<>> THEN FALSE
    ELSE IF Head(a) = Head(b) THEN IsSubsequence(Tail(a), Tail(b))
    ELSE IsSubsequence(a, Tail(b))

StreamingFlags(p) ==
    IF p = "claude" THEN {"--verbose", "--output-format", "--include-partial-messages"}
    ELSE {"--json"}

\* C9: preparing the Preparator's own output returns the same argument list;
\* and when each streaming flag occurs at most once in the input, it occurs at
\* most once in the prepared list, which keeps the original arguments in order.
C9_PrepareIdempotent ==
    /\ arg_pc = "twice" =>
          /\ arg_again.args = arg_out.args
          /\ arg_again.use_bridge = arg_out.use_bridge
    /\ (arg_pc # "in" /\ \A f \in StreamingFlags(provider) : Count(f, arg_in) <= 1) =>
          /\ \A f \in StreamingFlags(provider) : Count(f, arg_out.args) <= 1
          /\ IsSubsequence(arg_in, arg_out.args)

\* a prompt-mode list without any streaming flag got all of them, once, and the
\* second preparation changed nothing
C9_Witness ==
    /\ provider = "claude" /\ arg_pc = "twice"
    /\ arg_in = <<"-p", "x">>
    /\ arg_out.args = <<"-p", "x", "--verbose", "--output-format", "stream-json",
                        "--include-partial-messages">>
    /\ arg_again.args = arg_out.args

\* the place of the first "--" of a list, 0 when it has none
FirstSeparator(arg_list) == IF NotIn("--", arg_list) THEN 0 ELSE IndexOf("--", arg_list)

\* C17: for Provider B and an argument list that begins with exec, the prepared
\* list has a --json flag before its first "--" (at its end when the flag had
\* to be added and there is no "--"); the prompt is the token right after the
\* first "--", empty when there is none; the "--" and all tokens after it are
\* passed through unchanged.
C17_JsonBeforeSeparator ==
    (provider = "codex" /\ arg_pc # "in" /\ arg_in # <<>> /\ arg_in[1] = "exec") =>
       LET out == arg_out.args
           m_in == FirstSeparator(arg_in)
           m_out == FirstSeparator(out)
       IN  /\ arg_out.use_bridge
           /\ \E j \in 1..Len(out) : out[j] = "--json" /\ (m_out = 0 \/ j < m_out)
           /\ (m_in = 0 /\ NotIn("--json", arg_in)) => out = Append(arg_in, "--json")
           /\ arg_out.prompt_text =
                 IF m_in > 0 /\ m_in < Len(arg_in) THEN arg_in[m_in + 1] ELSE ""
           /\ (m_in = 0) = (m_out = 0)
           /\ m_in > 0 => SubSeq(out, m_out, Len(out)) = SubSeq(arg_in, m_in, Len(arg_in))

-----------------------------------------------------------------------------
(* main(), passthrough() and run_bridge(), with the child and the reader thread *)

NotFoundExit == 127

\* the status the interpreter exits with when an exception leaves main()
UncaughtExit == 1

ExitCodes == {0, 3}

\* the argument lists of the modelled runs
RunArgs(p) ==
    IF p = "claude"
    THEN {<<"-p">>, <<"--", "--print", "--verbose">>, <<"x">>, <<"--", "x">>}
    ELSE {<<"exec", "--", "x">>, <<"--", "exec">>, <<"x", "exec">>, <<>>}

\* the lines of the modelled children, by their index in the line table
RunLines(p) == IF p = "claude" THEN {2, 3, 8, 17} ELSE {2, 3, 11}

InitRun ==
    /\ provider \in {"claude", "codex"}
    /\ rest \in RunArgs(provider)
    /\ bin_found \in BOOLEAN
    /\ stdin_text \in 0..MaxPrompt
    /\ mpc = "start" /\ exit_code = -1 /\ stdin_read = FALSE
    /\ config_args = <<>> /\ to_write = 0
    /\ cstate = "none" /\ child_argv = <<>> /\ child_piped = FALSE /\ child_code = -1
    /\ stdin_pipe = 0 /\ out_pipe = <<>> /\ err_pipe = <<>> /\ n_out = 0 /\ n_err = 0
    /\ tpc = "none" /\ stderr_chunks = <<>> /\ join_timed_out = FALSE
    /\ stdout_w = <<>> /\ stderr_w = <<>>
    /\ collector_kind = "none" /\ tui_made = FALSE /\ log = <<>>
    /\ plan = <<>>
    /\ LabIdle
    /\ ColIdle(FALSE)
    /\ ArgIdle

\* "if args and args[0] == '--': args = args[1:]"
StripSeparator(a) == IF a # <<>> /\ a[1] = "--" THEN Tail(a) ELSE a

\* (mutant) the prompt is read whenever the provider takes it on stdin
ReadsStdinAlways(p, use_bridge) == p = "claude"

\* "prompt_text = sys.stdin.read() if use_bridge else ''" (Provider A only)
ReadsStdin(p, use_bridge) == p = "claude" /\ use_bridge

\* (mutant) the exit code is replaced by success
ReturncodeZero(code) == 0

\* completed.returncode / process.returncode
Returncode(code) == code

\* (mutant) the answer is written before the child is waited for
AfterLoopEmitFirst == <<"emit", "wait", "join", "flush", "replay", "return", "done">>

\* the statements of run_bridge after the read loop, in program order
AfterLoop == <<"wait", "join", "flush", "emit", "replay", "return", "done">>

\* the statement after pc in run_bridge
Successor(pc) == AfterLoop[(CHOOSE i \in 1..Len(AfterLoop) : AfterLoop[i] = pc) + 1]

\* (mutant) the newline is never appended
StdoutWritesBare(final_text) == IF final_text # <<>> THEN <<final_text>> ELSE <<>>

\* the sys.stdout.write calls of run_bridge for a final text
StdoutWrites(final_text) ==
    IF final_text # <<>>
    THEN <<final_text>> \o (IF ~EndsWithNL(final_text) THEN <<<<NL>>>> ELSE <<>>)
    ELSE <<>>

MainAlive == mpc \notin {"done", "crashed"}

\* main(): the real binary was not found
MainNotFound ==
    /\ mpc = "start" /\ ~bin_found
    /\ stderr_w' = Append(stderr_w, <<"oompa bridge: could not find real binary", NL>>)
    /\ exit_code' = NotFoundExit
    /\ mpc' = "done"
    /\ UNCHANGED <<provider, plan, labvars, colvars, argvars, rest, bin_found, stdin_text, stdin_read,
                   config_args, to_write, cstate, child_argv, child_piped, child_code,
                   stdin_pipe, out_pipe, err_pipe, n_out, n_err, tpc, stderr_chunks,
                   join_timed_out, stdout_w, collector_kind, tui_made, log>>

\* main(): bridging does not apply; passthrough() starts the real binary on
\* the program's own stdin, stdout and stderr
MainPassthrough ==
    /\ mpc = "start" /\ bin_found
    /\ LET args == StripSeparator(rest)
           prep == Prepare(provider, args)
       IN  /\ ~prep.use_bridge
           /\ stdin_read' = ReadsStdin(provider, prep.use_bridge)
           /\ child_argv' = args
    /\ cstate' = "running"
    /\ child_piped' = FALSE
    /\ mpc' = "pass_wait"
    /\ UNCHANGED <<provider, plan, labvars, colvars, argvars, rest, bin_found, stdin_text, exit_code,
                   config_args, to_write, child_code, stdin_pipe, out_pipe, err_pipe,
                   n_out, n_err, tpc, stderr_chunks, join_timed_out, stdout_w, stderr_w,
                   collector_kind, tui_made, log>>

\* passthrough(): subprocess.run returned; its returncode is main's result
MainPassReturn ==
    /\ mpc = "pass_wait" /\ cstate = "exited"
    /\ exit_code' = Returncode(child_code)
    /\ mpc' = "done"
    /\ UNCHANGED <<provider, plan, labvars, colvars, argvars, rest, bin_found, stdin_text, stdin_read,
                   config_args, to_write, cstate, child_argv, child_piped, child_code,
                   stdin_pipe, out_pipe, err_pipe, n_out, n_err, tpc, stderr_chunks,
                   join_timed_out, stdout_w, stderr_w, collector_kind, tui_made, log>>

\* main(): bridging applies; the prompt is read and the BridgeConfig built
MainBridge ==
    /\ mpc = "start" /\ bin_found
    /\ LET args == StripSeparator(rest)
           prep == Prepare(provider, args)
       IN  /\ prep.use_bridge
           /\ stdin_read' = ReadsStdin(provider, prep.use_bridge)
           /\ config_args' = prep.args
    /\ to_write' = IF provider = "claude" THEN stdin_text ELSE 0
    /\ mpc' = "spawn"
    /\ UNCHANGED <<provider, plan, labvars, colvars, argvars, rest, bin_found, stdin_text, exit_code,
                   cstate, child_argv, child_piped, child_code, stdin_pipe, out_pipe,
                   err_pipe, n_out, n_err, tpc, stderr_chunks, join_timed_out, stdout_w,
                   stderr_w, collector_kind, tui_made, log>>

\* run_bridge: subprocess.Popen
Spawn ==
    /\ mpc = "spawn"
    /\ child_argv' = config_args
    /\ cstate' = "running"
    /\ child_piped' = TRUE
    /\ mpc' = IF provider = "claude" THEN "write_stdin" ELSE "start_thread"
    /\ UNCHANGED <<provider, plan, labvars, colvars, argvars, rest, bin_found, stdin_text, exit_code,
                   stdin_read, config_args, to_write, child_code, stdin_pipe, out_pipe,
                   err_pipe, n_out, n_err, tpc, stderr_chunks, join_timed_out, stdout_w,
                   stderr_w, collector_kind, tui_made, log>>

\* run_bridge: process.stdin.write(config.prompt_text), one pipe unit at a
\* time; it blocks while the pipe is full
WriteStdin ==
    /\ mpc = "write_stdin" /\ to_write > 0
    /\ cstate = "running" /\ stdin_pipe < PipeCap
    /\ stdin_pipe' = stdin_pipe + 1
    /\ to_write' = to_write - 1
    /\ UNCHANGED <<provider, plan, labvars, colvars, argvars, rest, bin_found, stdin_text, mpc,
                   exit_code, stdin_read, config_args, cstate, child_argv, child_piped,
                   child_code, out_pipe, err_pipe, n_out, n_err, tpc, stderr_chunks,
                   join_timed_out, stdout_w, stderr_w, collector_kind, tui_made, log>>

\* run_bridge: the child has gone and closed the read end: the write (or the
\* flush in close) raises BrokenPipeError, which nothing catches
WriteStdinBroken ==
    /\ mpc = "write_stdin" /\ to_write > 0
    /\ cstate = "exited"
    /\ raised' = "BrokenPipeError"
    /\ twin' = Raise(twin, "BrokenPipeError")
    /\ exit_code' = UncaughtExit
    /\ mpc' = "crashed"
    /\ UNCHANGED <<provider, plan, labvars, final_text_parts, stream_text_parts, raw_fallback,
                   tool_seen, tui_stream, tui_buffer, tty, tool_lines, fed, clean,
                   argvars, rest, bin_found, stdin_text, stdin_read, config_args,
                   to_write, cstate, child_argv, child_piped, child_code, stdin_pipe,
                   out_pipe, err_pipe, n_out, n_err, tpc, stderr_chunks, join_timed_out,
                   stdout_w, stderr_w, collector_kind, tui_made, log>>

\* run_bridge: process.stdin.close()
CloseStdin ==
    /\ mpc = "write_stdin" /\ to_write = 0
    /\ mpc' = "start_thread"
    /\ UNCHANGED <<provider, plan, labvars, colvars, argvars, rest, bin_found, stdin_text, exit_code,
                   stdin_read, config_args, to_write, cstate, child_argv, child_piped,
                   child_code, stdin_pipe, out_pipe, err_pipe, n_out, n_err, tpc,
                   stderr_chunks, join_timed_out, stdout_w, stderr_w, collector_kind,
                   tui_made, log>>

\* run_bridge: stderr_thread.start()
StartThread ==
    /\ mpc = "start_thread"
    /\ tpc' = "running"
    /\ mpc' = "make"
    /\ UNCHANGED <<provider, plan, labvars, colvars, argvars, rest, bin_found, stdin_text, exit_code,
                   stdin_read, config_args, to_write, cstate, child_argv, child_piped,
                   child_code, stdin_pipe, out_pipe, err_pipe, n_out, n_err,
                   stderr_chunks, join_timed_out, stdout_w, stderr_w, collector_kind,
                   tui_made, log>>

\* run_bridge: TuiWriter(...) (a sink is attached or not, as the environment
\* decides) and the provider's Collector
MakeCollector ==
    /\ mpc = "make"
    /\ \E stream \in BOOLEAN :
          /\ SetCol(NewCollector(stream))
          /\ twin' = NewCollector(~stream)
    /\ collector_kind' = provider
    /\ tui_made' = TRUE
    /\ mpc' = "loop"
    /\ UNCHANGED <<provider, plan, labvars, fed, clean, argvars, rest, bin_found, stdin_text,
                   exit_code, stdin_read, config_args, to_write, cstate, child_argv,
                   child_piped, child_code, stdin_pipe, out_pipe, err_pipe, n_out,
                   n_err, tpc, stderr_chunks, join_timed_out, stdout_w, stderr_w, log>>

\* run_bridge: "for line in process.stdout: collector.feed(line)", one line; an
\* exception of feed leaves run_bridge and main
ReadLine ==
    /\ mpc = "loop" /\ out_pipe # <<>>
    /\ LET c == Feed(provider, Col, LinesOf(provider)[Head(out_pipe)]) IN
          /\ SetCol(c)
          /\ mpc' = IF c.raised # "" THEN "crashed" ELSE "loop"
          /\ exit_code' = IF c.raised # "" THEN UncaughtExit ELSE exit_code
    /\ fed' = Append(fed, Head(out_pipe))
    /\ twin' = Feed(provider, twin, LinesOf(provider)[Head(out_pipe)])
    /\ out_pipe' = Tail(out_pipe)
    /\ UNCHANGED <<provider, plan, labvars, clean, argvars, rest, bin_found, stdin_text, stdin_read,
                   config_args, to_write, cstate, child_argv, child_piped, child_code,
                   stdin_pipe, err_pipe, n_out, n_err, tpc, stderr_chunks,
                   join_timed_out, stdout_w, stderr_w, collector_kind, tui_made, log>>

\* run_bridge: the read loop ends at end-of-file of the child's stdout
ReadEOF ==
    /\ mpc = "loop" /\ out_pipe = <<>> /\ cstate = "exited"
    /\ mpc' = AfterLoop[1]
    /\ log' = Append(log, "eof")
    /\ UNCHANGED <<provider, plan, labvars, colvars, argvars, rest, bin_found, stdin_text, exit_code,
                   stdin_read, config_args, to_write, cstate, child_argv, child_piped,
                   child_code, stdin_pipe, out_pipe, err_pipe, n_out, n_err, tpc,
                   stderr_chunks, join_timed_out, stdout_w, stderr_w, collector_kind,
                   tui_made>>

\* run_bridge: process.wait()
Wait ==
    /\ mpc = "wait" /\ cstate = "exited"
    /\ mpc' = Successor("wait")
    /\ log' = Append(log, "wait")
    /\ UNCHANGED <<provider, plan, labvars, colvars, argvars, rest, bin_found, stdin_text, exit_code,
                   stdin_read, config_args, to_write, cstate, child_argv, child_piped,
                   child_code, stdin_pipe, out_pipe, err_pipe, n_out, n_err, tpc,
                   stderr_chunks, join_timed_out, stdout_w, stderr_w, collector_kind,
                   tui_made>>

\* run_bridge: stderr_thread.join(timeout=1.0) returns because the thread ended
Join_ ==
    /\ mpc = "join" /\ tpc = "done"
    /\ mpc' = Successor("join")
    /\ log' = Append(log, "join")
    /\ UNCHANGED <<provider, plan, labvars, colvars, argvars, rest, bin_found, stdin_text, exit_code,
                   stdin_read, config_args, to_write, cstate, child_argv, child_piped,
                   child_code, stdin_pipe, out_pipe, err_pipe, n_out, n_err, tpc,
                   stderr_chunks, join_timed_out, stdout_w, stderr_w, collector_kind,
                   tui_made>>

\* run_bridge: stderr_thread.join(timeout=1.0) returns on its timeout, the
\* thread still running
JoinTimeout ==
    /\ mpc = "join" /\ tpc = "running"
    /\ join_timed_out' = TRUE
    /\ mpc' = Successor("join")
    /\ log' = Append(log, "join")
    /\ UNCHANGED <<provider, plan, labvars, colvars, argvars, rest, bin_found, stdin_text, exit_code,
                   stdin_read, config_args, to_write, cstate, child_argv, child_piped,
                   child_code, stdin_pipe, out_pipe, err_pipe, n_out, n_err, tpc,
                   stderr_chunks, stdout_w, stderr_w, collector_kind, tui_made>>

\* run_bridge: tui.flush()
Flush ==
    /\ mpc = "flush"
    /\ SetCol(TuiFlush(Col))
    /\ twin' = TuiFlush(twin)
    /\ mpc' = Successor("flush")
    /\ log' = Append(log, "flush")
    /\ UNCHANGED <<provider, plan, labvars, fed, clean, argvars, rest, bin_found, stdin_text,
                   exit_code, stdin_read, config_args, to_write, cstate, child_argv,
                   child_piped, child_code, stdin_pipe, out_pipe, err_pipe, n_out,
                   n_err, tpc, stderr_chunks, join_timed_out, stdout_w, stderr_w,
                   collector_kind, tui_made>>

\* run_bridge: final_text = collector.final_text() and its writes to sys.stdout
Emit ==
    /\ mpc = "emit"
    /\ stdout_w' = stdout_w \o StdoutWrites(FinalText(provider, Col))
    /\ mpc' = Successor("emit")
    /\ log' = Append(log, "emit")
    /\ UNCHANGED <<provider, plan, labvars, colvars, argvars, rest, bin_found, stdin_text, exit_code,
                   stdin_read, config_args, to_write, cstate, child_argv, child_piped,
                   child_code, stdin_pipe, out_pipe, err_pipe, n_out, n_err, tpc,
                   stderr_chunks, join_timed_out, stderr_w, collector_kind, tui_made>>

\* (mutant) only the newest chunk is replayed
ReplayTextNewest(chunks) == chunks[Len(chunks)]

\* "".join(stderr_chunks)
ReplayText(chunks) == Join(<<>>, chunks)

\* run_bridge: "if stderr_chunks: sys.stderr.write(''.join(stderr_chunks))"
Replay ==
    /\ mpc = "replay"
    /\ stderr_w' = IF stderr_chunks # <<>>
                   THEN Append(stderr_w, ReplayText(stderr_chunks)) ELSE stderr_w
    /\ mpc' = Successor("replay")
    /\ log' = Append(log, "replay")
    /\ UNCHANGED <<provider, plan, labvars, colvars, argvars, rest, bin_found, stdin_text, exit_code,
                   stdin_read, config_args, to_write, cstate, child_argv, child_piped,
                   child_code, stdin_pipe, out_pipe, err_pipe, n_out, n_err, tpc,
                   stderr_chunks, join_timed_out, stdout_w, collector_kind, tui_made>>

\* run_bridge: return process.returncode
Return ==
    /\ mpc = "return"
    /\ exit_code' = Returncode(child_code)
    /\ mpc' = Successor("return")
    /\ log' = Append(log, "return")
    /\ UNCHANGED <<provider, plan, labvars, colvars, argvars, rest, bin_found, stdin_text, stdin_read,
                   config_args, to_write, cstate, child_argv, child_piped, child_code,
                   stdin_pipe, out_pipe, err_pipe, n_out, n_err, tpc, stderr_chunks,
                   join_timed_out, stdout_w, stderr_w, collector_kind, tui_made>>

\* read_stderr: "for chunk in process.stderr: stderr_chunks.append(chunk)", one
\* chunk; the thread is a daemon and ends with the program
ThreadRead ==
    /\ tpc = "running" /\ MainAlive /\ err_pipe # <<>>
    /\ stderr_chunks' = Append(stderr_chunks, Head(err_pipe))
    /\ err_pipe' = Tail(err_pipe)
    /\ UNCHANGED <<provider, plan, labvars, colvars, argvars, rest, bin_found, stdin_text, mpc,
                   exit_code, stdin_read, config_args, to_write, cstate, child_argv,
                   child_piped, child_code, stdin_pipe, out_pipe, n_out, n_err, tpc,
                   join_timed_out, stdout_w, stderr_w, collector_kind, tui_made, log>>

\* read_stderr: end-of-file of the child's stderr ends the loop
ThreadEOF ==
    /\ tpc = "running" /\ MainAlive /\ err_pipe = <<>> /\ cstate = "exited"
    /\ tpc' = "done"
    /\ UNCHANGED <<provider, plan, labvars, colvars, argvars, rest, bin_found, stdin_text, mpc,
                   exit_code, stdin_read, config_args, to_write, cstate, child_argv,
                   child_piped, child_code, stdin_pipe, out_pipe, err_pipe, n_out,
                   n_err, stderr_chunks, join_timed_out, stdout_w, stderr_w,
                   collector_kind, tui_made, log>>

\* the child reads a unit of its stdin
ChildReadStdin ==
    /\ cstate = "running" /\ child_piped /\ MainAlive /\ stdin_pipe > 0
    /\ stdin_pipe' = stdin_pipe - 1
    /\ UNCHANGED <<provider, plan, labvars, colvars, argvars, rest, bin_found, stdin_text, mpc,
                   exit_code, stdin_read, config_args, to_write, cstate, child_argv,
                   child_piped, child_code, out_pipe, err_pipe, n_out, n_err, tpc,
                   stderr_chunks, join_timed_out, stdout_w, stderr_w, collector_kind,
                   tui_made, log>>

\* the child writes a line to its stdout; it blocks while the pipe is full
ChildWriteOut ==
    /\ cstate = "running" /\ child_piped /\ MainAlive
    /\ n_out < MaxOut /\ Len(out_pipe) < PipeCap
    /\ \E i \in RunLines(provider) : out_pipe' = Append(out_pipe, i)
    /\ n_out' = n_out + 1
    /\ UNCHANGED <<provider, plan, labvars, colvars, argvars, rest, bin_found, stdin_text, mpc,
                   exit_code, stdin_read, config_args, to_write, cstate, child_argv,
                   child_piped, child_code, stdin_pipe, err_pipe, n_err, tpc,
                   stderr_chunks, join_timed_out, stdout_w, stderr_w, collector_kind,
                   tui_made, log>>

\* the n-th chunk a child writes to its stderr
ErrChunk(n) == <<"e", ToString(n), NL>>

\* the child writes a chunk to its stderr; it blocks while the pipe is full
ChildWriteErr ==
    /\ cstate = "running" /\ child_piped /\ MainAlive
    /\ n_err < MaxErr /\ Len(err_pipe) < PipeCap
    /\ err_pipe' = Append(err_pipe, ErrChunk(n_err + 1))
    /\ n_err' = n_err + 1
    /\ UNCHANGED <<provider, plan, labvars, colvars, argvars, rest, bin_found, stdin_text, mpc,
                   exit_code, stdin_read, config_args, to_write, cstate, child_argv,
                   child_piped, child_code, stdin_pipe, out_pipe, n_out, tpc,
                   stderr_chunks, join_timed_out, stdout_w, stderr_w, collector_kind,
                   tui_made, log>>

\* the child exits, which closes its ends of the pipes
ChildExit ==
    /\ cstate = "running" /\ MainAlive
    /\ \E code \in ExitCodes : child_code' = code
    /\ cstate' = "exited"
    /\ UNCHANGED <<provider, plan, labvars, colvars, argvars, rest, bin_found, stdin_text, mpc,
                   exit_code, stdin_read, config_args, to_write, child_argv,
                   child_piped, stdin_pipe, out_pipe, err_pipe, n_out, n_err, tpc,
                   stderr_chunks, join_timed_out, stdout_w, stderr_w, collector_kind,
                   tui_made, log>>

NextRun ==
    \/ MainNotFound \/ MainPassthrough \/ MainPassReturn \/ MainBridge
    \/ Spawn \/ WriteStdin \/ WriteStdinBroken \/ CloseStdin \/ StartThread
    \/ MakeCollector \/ ReadLine \/ ReadEOF \/ Wait \/ Join_ \/ JoinTimeout
    \/ Flush \/ Emit \/ Replay \/ Return
    \/ ThreadRead \/ ThreadEOF
    \/ ChildReadStdin \/ ChildWriteOut \/ ChildWriteErr \/ ChildExit

SpecRun == InitRun /\ [][NextRun]_vars

-----------------------------------------------------------------------------
(* Properties of a run (SpecRun) *)

MainEnded == mpc \in {"done", "crashed"}

\* C3: in every bridged run the bridge's exit code is the child's own exit
\* code, whatever the child emitted, whatever the final text is and whether or
\* not the join timed out; no other value is substituted.
C3_ExitCodeIsChilds ==
    (child_piped /\ MainEnded /\ cstate = "exited") => exit_code = child_code

\* the arguments meant for the real tool: those after --provider, without a
\* leading "--"
ToolArgs == IF rest # <<>> /\ rest[1] = "--" THEN SubSeq(rest, 2, Len(rest)) ELSE rest

\* Provider A without a prompt flag; Provider B whose first argument is not
\* the exec subcommand
NoBridging ==
    IF provider = "claude"
    THEN \A i \in 1..Len(ToolArgs) : ToolArgs[i] \notin {"-p", "--print"}
    ELSE ToolArgs = <<>> \/ ToolArgs[1] # "exec"

\* C4: when bridging does not apply (and the real binary was found), main runs
\* the real binary with exactly the original arguments, creates no Collector
\* and no Writer, writes nothing to stdout, does not read the prompt from stdin
\* and returns the child's exit code unchanged.
C4_PassThroughTransparent ==
    (mpc # "start" /\ bin_found /\ NoBridging) =>
       /\ cstate # "none" /\ ~child_piped
       /\ child_argv = ToolArgs
       /\ collector_kind = "none" /\ ~tui_made /\ tpc = "none"
       /\ stdout_w = <<>>
       /\ ~stdin_read
       /\ mpc = "done" => (cstate = "exited" /\ exit_code = child_code)

\* a pass-through run returned the child's non-zero exit code
C4_Witness ==
    /\ provider = "claude" /\ rest = <<"--", "x">> /\ NoBridging
    /\ mpc = "done" /\ child_argv = <<"x">> /\ child_code = 3 /\ exit_code = 3

\* C5: in a bridged run the final text is written to stdout at most once, and
\* only after the child's stdout was consumed to its end, the child
\* terminated, the join returned and the Writer was flushed, in this order;
\* nothing is written to stdout before; the stderr replay comes only after.
C5_EmissionOrdered ==
    [][child_piped =>
         /\ stdout_w' # stdout_w =>
               /\ stdout_w = <<>> /\ stderr_w = <<>>
               /\ out_pipe = <<>> /\ cstate = "exited"
               /\ log = <<"eof", "wait", "join", "flush">>
               /\ tui_buffer = <<>>
               /\ stdout_w' \in {<<FinalText(provider, Col)>>,
                                 <<FinalText(provider, Col), <<NL>>>>}
         /\ stderr_w' # stderr_w =>
               log = <<"eof", "wait", "join", "flush", "emit">>]_vars

\* a run that buffered display text, wrote its answer and replayed stderr
C5_Witness ==
    /\ mpc = "done" /\ child_piped /\ provider = "claude"
    /\ stdout_w = <<hello, <<NL>>>>
    /\ stderr_w = <<ErrChunk(1) \o ErrChunk(2)>>
    /\ fed = <<3, 8>> /\ tui_stream /\ Len(tty) = 1

TheStdout == Join(<<>>, stdout_w)

Emitted == \E i \in 1..Len(log) : log[i] = "emit"

\* C10 (as stated): what a bridged run writes to stdout is the final text
\* followed by a newline when the text does not end with one: stdout is
\* newline-terminated for every possible final text.
C10_AlwaysNewlineTerminated ==
    (child_piped /\ Emitted) =>
       /\ TheStdout = TheFinalText \o (IF EndsWithNL(TheFinalText) THEN <<>> ELSE <<NL>>)
       /\ EndsWithNL(TheStdout)

\* C10 (amended): when the final text is not empty, a bridged run writes it to
\* stdout followed by a newline when the text does not end with one, so that
\* stdout is newline-terminated; when the final text is empty it writes
\* nothing to stdout at all.
C10_NewlineUnlessEmpty ==
    (child_piped /\ Emitted) =>
       IF TheFinalText # <<>>
       THEN /\ TheStdout = TheFinalText \o (IF EndsWithNL(TheFinalText) THEN <<>> ELSE <<NL>>)
            /\ EndsWithNL(TheStdout)
       ELSE stdout_w = <<>>

\* Provider B's answer "done" reached stdout with its newline
C10_Witness ==
    /\ provider = "codex" /\ child_piped /\ Emitted
    /\ fed = <<3>>
    /\ TheStdout = <<"done", NL>>

\* the step of the main path that reads stderr_chunks (lines 391-392)
MainReadsChunks == mpc = "replay" /\ mpc' # "replay"

\* the reader thread has not ended and a chunk waits for it in the pipe
ReaderCanAppend == tpc = "running" /\ err_pipe # <<>>

\* C13: stderr_chunks is appended to only by the reader thread, and the main
\* path reads it only when that thread has stopped appending: in no
\* interleaving, a timed-out join included, does the main path read the buffer
\* while the reader can still append to it.
C13_ReadAfterReaderStopped ==
    [][/\ stderr_chunks' # stderr_chunks =>
             (tpc = "running" /\ err_pipe # <<>>
                /\ stderr_chunks' = Append(stderr_chunks, Head(err_pipe)))
       /\ MainReadsChunks => ~ReaderCanAppend]_vars

\* C14: when the real binary is not found, main returns 127 without spawning a
\* subprocess, without reading the prompt from stdin and without writing to
\* stdout; in every other case the code the program ends with is the child's
\* exit code.
C14_NotFoundOrChildsCode ==
    /\ (mpc # "start" /\ ~bin_found) =>
          /\ mpc = "done" /\ exit_code = NotFoundExit
          /\ cstate = "none" /\ tpc = "none"
          /\ ~stdin_read
          /\ stdout_w = <<>>
    /\ (MainEnded /\ bin_found) => (cstate = "exited" /\ exit_code = child_code)

\* everything the child has written to its stderr, in order
RECURSIVE ChildStderr(_)
ChildStderr(n) == IF n = 0 THEN <<>> ELSE ChildStderr(n - 1) \o ErrChunk(n)

\* what the run has written to the program's stderr
TheStderr == Join(<<>>, stderr_w)

Replayed == \E i \in 1..Len(log) : log[i] = "replay"

\* C16: in a bridged run the text replayed to the program's stderr is a prefix,
\* in order, of what the child wrote to its stderr; it is all of it when the
\* reader had reached end-of-stream before the join returned; after a join
\* timeout the main path goes on with what was captured so far and returns the
\* child's exit code.
C16_ReplayIsPrefix ==
    child_piped =>
       /\ StartsWith(ChildStderr(n_err), TheStderr)
       /\ (Replayed /\ ~join_timed_out) => TheStderr = ChildStderr(n_err)
       /\ (join_timed_out /\ mpc = "done") =>
             /\ Replayed
             /\ cstate = "exited" /\ exit_code = child_code

\* the join timed out with one of two chunks captured; that chunk was replayed
\* and the child's code returned
C16_Witness ==
    /\ child_piped /\ join_timed_out /\ mpc = "done"
    /\ n_err = 2 /\ stderr_w = <<ErrChunk(1)>>
    /\ child_code = 3 /\ exit_code = 3

-----------------------------------------------------------------------------
(* A bridged Provider A run whose child follows a program: it reads its stdin *)
(* to end-of-file, writes lines and chunks, in any order, and exits           *)

\* the programs of the modelled children: one "R" among writes
Plans ==
    {q \in UNION {[1..n -> {"R", "o", "e"}] : n \in 1..MaxPlan} :
        Cardinality({i \in 1..Len(q) : q[i] = "R"}) = 1}

InitPiped ==
    /\ provider = "claude"
    /\ rest = <<"-p">>
    /\ bin_found = TRUE
    /\ stdin_text \in 0..MaxPrompt
    /\ mpc = "start" /\ exit_code = -1 /\ stdin_read = FALSE
    /\ config_args = <<>> /\ to_write = 0
    /\ cstate = "none" /\ child_argv = <<>> /\ child_piped = FALSE /\ child_code = -1
    /\ stdin_pipe = 0 /\ out_pipe = <<>> /\ err_pipe = <<>> /\ n_out = 0 /\ n_err = 0
    /\ tpc = "none" /\ stderr_chunks = <<>> /\ join_timed_out = FALSE
    /\ stdout_w = <<>> /\ stderr_w = <<>>
    /\ collector_kind = "none" /\ tui_made = FALSE /\ log = <<>>
    /\ plan \in Plans
    /\ LabIdle
    /\ ColIdle(FALSE)
    /\ ArgIdle

\* process.stdin.close() has run: the child's read meets end-of-file once the
\* pipe is empty
StdinClosed == mpc \notin {"start", "spawn", "write_stdin"}

NextOp(op) == cstate = "running" /\ child_piped /\ plan # <<>> /\ Head(plan) = op

\* the child reads a unit of its stdin
PlanRead ==
    /\ NextOp("R") /\ stdin_pipe > 0
    /\ stdin_pipe' = stdin_pipe - 1
    /\ UNCHANGED <<provider, plan, labvars, colvars, argvars, rest, bin_found, stdin_text, mpc,
                   exit_code, stdin_read, config_args, to_write, cstate, child_argv,
                   child_piped, child_code, out_pipe, err_pipe, n_out, n_err, tpc,
                   stderr_chunks, join_timed_out, stdout_w, stderr_w, collector_kind,
                   tui_made, log>>

\* the child's read meets end-of-file
PlanReadEOF ==
    /\ NextOp("R") /\ stdin_pipe = 0 /\ StdinClosed
    /\ plan' = Tail(plan)
    /\ UNCHANGED <<provider, labvars, colvars, argvars, runvars>>

\* the child writes a line to its stdout; it blocks while the pipe is full
PlanWriteOut ==
    /\ NextOp("o") /\ Len(out_pipe) < PipeCap
    /\ out_pipe' = Append(out_pipe, 3)
    /\ n_out' = n_out + 1
    /\ plan' = Tail(plan)
    /\ UNCHANGED <<provider, labvars, colvars, argvars, rest, bin_found, stdin_text, mpc,
                   exit_code, stdin_read, config_args, to_write, cstate, child_argv,
                   child_piped, child_code, stdin_pipe, err_pipe, n_err, tpc,
                   stderr_chunks, join_timed_out, stdout_w, stderr_w, collector_kind,
                   tui_made, log>>

\* the child writes a chunk to its stderr; it blocks while the pipe is full
PlanWriteErr ==
    /\ NextOp("e") /\ Len(err_pipe) < PipeCap
    /\ err_pipe' = Append(err_pipe, ErrChunk(n_err + 1))
    /\ n_err' = n_err + 1
    /\ plan' = Tail(plan)
    /\ UNCHANGED <<provider, labvars, colvars, argvars, rest, bin_found, stdin_text, mpc,
                   exit_code, stdin_read, config_args, to_write, cstate, child_argv,
                   child_piped, child_code, stdin_pipe, out_pipe, n_out, tpc,
                   stderr_chunks, join_timed_out, stdout_w, stderr_w, collector_kind,
                   tui_made, log>>

\* the child has done all it had to do and exits
PlanExit ==
    /\ cstate = "running" /\ child_piped /\ plan = <<>>
    /\ \E code \in ExitCodes : child_code' = code
    /\ cstate' = "exited"
    /\ UNCHANGED <<provider, plan, labvars, colvars, argvars, rest, bin_found, stdin_text, mpc,
                   exit_code, stdin_read, config_args, to_write, child_argv,
                   child_piped, stdin_pipe, out_pipe, err_pipe, n_out, n_err, tpc,
                   stderr_chunks, join_timed_out, stdout_w, stderr_w, collector_kind,
                   tui_made, log>>

NextPiped ==
    \/ MainBridge \/ Spawn \/ WriteStdin \/ CloseStdin \/ StartThread
    \/ MakeCollector \/ ReadLine \/ ReadEOF \/ Wait \/ Join_ \/ JoinTimeout
    \/ Flush \/ Emit \/ Replay \/ Return
    \/ ThreadRead \/ ThreadEOF
    \/ PlanRead \/ PlanReadEOF \/ PlanWriteOut \/ PlanWriteErr \/ PlanExit

SpecPiped == InitPiped /\ [][NextPiped]_vars

\* the main path waits on a pipe: for room in the child's stdin, or for a line
\* (or end-of-file) of the child's stdout
MainBlocked ==
    \/ mpc = "write_stdin" /\ to_write > 0 /\ cstate = "running" /\ stdin_pipe >= PipeCap
    \/ mpc = "loop" /\ out_pipe = <<>> /\ cstate = "running"

\* the reader thread does not run, or waits for a chunk of the child's stderr
ReaderBlocked == tpc # "running" \/ err_pipe = <<>>

\* the child waits on a pipe: for room in stdout or stderr, or for its stdin
ChildBlocked ==
    \/ NextOp("o") /\ Len(out_pipe) >= PipeCap
    \/ NextOp("e") /\ Len(err_pipe) >= PipeCap
    \/ NextOp("R") /\ stdin_pipe = 0 /\ ~StdinClosed

\* C15: with bounded pipes, for every child that reads its stdin, writes
\* finite output to stdout and stderr in any interleaving and exits, the run
\* never reaches a state where the bridge (main path and reader) and the child
\* are all blocked on a pipe.
C15_NeverBothBlocked == ~(MainBlocked /\ ReaderBlocked /\ ChildBlocked)

-----------------------------------------------------------------------------
(* Two collectors on the same lines, one with a sink and one without (SpecCollector) *)

\* C19: a sink has no effect on the result: the same lines fed to a collector
\* whose Writer has a sink and to one whose Writer has none leave the same
\* finalized, streamed and raw-fallback sequences, the same exception or none
\* (hence the same exit code), the same final text and the same writes to
\* stdout; and a Writer without a sink writes nothing and keeps its buffer
\* empty.
C19_SinkDoesNotMatter ==
    /\ twin.tui_stream = ~tui_stream
    /\ final_text_parts = twin.final_text_parts
    /\ stream_text_parts = twin.stream_text_parts
    /\ raw_fallback = twin.raw_fallback
    /\ raised = twin.raised
    /\ TheFinalText = FinalText(provider, twin)
    /\ StdoutWrites(TheFinalText) = StdoutWrites(FinalText(provider, twin))
    /\ ~tui_stream => (tui_buffer = <<>> /\ tty = <<>>)
    /\ tui_stream => (twin.tui_buffer = <<>> /\ twin.tty = <<>>)

\* with a sink a TOOL line was written and delta text is pending; without one
\* nothing was written or buffered; both give the same final text
C19_Witness ==
    /\ provider = "claude" /\ tui_stream /\ fed = <<3, 12, 8>>
    /\ ToolLineCount = 1 /\ tui_buffer = <<"a", "b">>
    /\ twin.tty = <<>> /\ twin.tui_buffer = <<>>
    /\ TheFinalText = hello /\ FinalText(provider, twin) = hello

-----------------------------------------------------------------------------
(* main() as far as the worker label: extract_worktree_from_prompt,          *)
(* parse_codex_worktree, normalize_label                                     *)

\* the characters of a command-line token, of a prompt or of a directory
\* ("Worktree:" and "unknown" are atomic chunks)
TextOf(token) ==
    CASE token = ""            -> <<>>
      [] token = "/a/b/.foo"   -> <<"/", "a", "/", "b", "/", ".", "f", "o", "o">>
      [] token = "/w/x/"       -> <<"/", "w", "/", "x", "/">>
      [] token = "/a/.."       -> <<"/", "a", "/", ".", ".">>
      [] token = "."           -> <<".">>
      [] token = "/"           -> <<"/">>
      [] token = "w"           -> <<"w">>
      [] token = "/r/..b"      -> <<"/", "r", "/", ".", ".", "b">>
      [] token = "go Worktree: /a/b/.foo now"
            -> <<"g", "o", SP, "Worktree:", SP, "/", "a", "/", "b", "/", ".", "f", "o", "o",
                 SP, "n", "o", "w">>
      [] token = "Worktree:/p end Worktree: /q"
            -> <<"Worktree:", "/", "p", SP, "e", "n", "d", SP, "Worktree:", SP, "/", "q">>
      [] token = "Worktree: \n.. "
            -> <<"Worktree:", SP, NL, ".", ".", SP>>
      [] token = "see Worktree: "
            -> <<"s", "e", "e", SP, "Worktree:", SP>>
      [] token = "plain"       -> <<"p", "l", "a", "i", "n">>
      [] token = "--json"      -> <<"-", "-", "j", "s", "o", "n">>
      [] token = "--"          -> <<"-", "-">>

PathTokens == {"/a/b/.foo", "/w/x/", "/a/..", ".", "/", "w"}

PromptTokens == {"go Worktree: /a/b/.foo now", "Worktree:/p end Worktree: /q",
                 "Worktree: \n.. ", "see Worktree: ", "plain"}

\* the directories main() may run in
CwdTokens == {"/r/..b", "/w/x/", "/"}

\* the maximal run of non-space tokens of s that starts at i
RECURSIVE NonSpaceRun(_, _)
NonSpaceRun(s, i) ==
    IF i > Len(s) \/ IsSpace(s[i]) THEN <<>> ELSE <<s[i]>> \o NonSpaceRun(s, i + 1)

\* the first place at or after i that holds no space, Len(s) + 1 when none
RECURSIVE SkipSpace(_, _)
SkipSpace(s, i) == IF i <= Len(s) /\ IsSpace(s[i]) THEN SkipSpace(s, i + 1) ELSE i

\* re.search(r"Worktree:\s*(\S+)", s), scanning from place i: group 1 of the
\* leftmost match, <<>> (None) when nothing matches
RECURSIVE SearchWorktree(_, _)
SearchWorktree(s, i) ==
    IF i > Len(s) THEN <<>>
    ELSE IF s[i] = "Worktree:" /\ NonSpaceRun(s, SkipSpace(s, i + 1)) # <<>>
         THEN NonSpaceRun(s, SkipSpace(s, i + 1))
         ELSE SearchWorktree(s, i + 1)

\* extract_worktree_from_prompt(prompt)
extract_worktree_from_prompt(prompt) ==
    IF prompt = <<>> THEN <<>> ELSE SearchWorktree(prompt, 1)

\* parse_codex_worktree(args): the token after the first "-C" that has one,
\* "" (None) when there is none
parse_codex_worktree(args) ==
    IF \E i \in 1..(Len(args) - 1) : args[i] = "-C"
    THEN args[(CHOOSE i \in 1..(Len(args) - 1) :
                  args[i] = "-C" /\ \A j \in 1..(i - 1) : args[j] # "-C") + 1]
    ELSE ""

\* path.rstrip("/")
RECURSIVE RStripSlash(_)
RStripSlash(path) ==
    IF path # <<>> /\ path[Len(path)] = "/"
    THEN RStripSlash(SubSeq(path, 1, Len(path) - 1)) ELSE path

\* os.path.basename(path): what follows the last "/"
basename(path) ==
    LET slashes == {i \in 1..Len(path) : path[i] = "/"}
        last == IF slashes = {} THEN 0
                ELSE CHOOSE i \in slashes : \A j \in slashes : j <= i
    IN  SubSeq(path, last + 1, Len(path))

\* base.lstrip(".")
RECURSIVE LStripDot(_)
LStripDot(base) == IF base # <<>> /\ Head(base) = "." THEN LStripDot(Tail(base)) ELSE base

Placeholder == <<"unknown">>

\* (mutant) the final segment is the label as it is
normalize_label_unstripped(path) ==
    IF path = <<>> THEN Placeholder
    ELSE LET base == basename(RStripSlash(path))
         IN  IF base # <<>> THEN base ELSE Placeholder

\* normalize_label(path)
normalize_label(path) ==
    IF path = <<>> THEN Placeholder
    ELSE LET base == basename(RStripSlash(path))
         IN  IF LStripDot(base) # <<>> THEN LStripDot(base)
             ELSE IF base # <<>> THEN base
             ELSE Placeholder

\* a or b, for texts
OrText(a, b) == IF a # <<>> THEN a ELSE b

\* the argument lists of the modelled invocations
LabelArgs(p) ==
    IF p = "claude" THEN {<<"-p">>, <<"x">>}
    ELSE {<<"x">>}
         \cup {<<"exec">> \o opt \o pr :
                  opt \in {<<>>, <<"-C">>} \cup {<<"-C", path>> : path \in PathTokens},
                  pr \in {<<>>} \cup {<<"--", prompt>> : prompt \in PromptTokens}}

InitLabel ==
    /\ provider \in {"claude", "codex"}
    /\ lab_args \in LabelArgs(provider)
    /\ lab_stdin \in IF provider = "claude"
                     THEN {TextOf(t) : t \in PromptTokens \cup {""}} ELSE {<<>>}
    /\ lab_cwd \in {TextOf(t) : t \in CwdTokens}
    /\ worker_source = <<>> /\ worker_label = <<>> /\ lab_pc = "start"
    /\ plan = <<>>
    /\ ColIdle(FALSE)
    /\ ArgIdle
    /\ rest = <<>> /\ bin_found = FALSE /\ stdin_text = 0
    /\ mpc = "idle" /\ exit_code = -1 /\ stdin_read = FALSE
    /\ config_args = <<>> /\ to_write = 0
    /\ cstate = "none" /\ child_argv = <<>> /\ child_piped = FALSE /\ child_code = -1
    /\ stdin_pipe = 0 /\ out_pipe = <<>> /\ err_pipe = <<>> /\ n_out = 0 /\ n_err = 0
    /\ tpc = "none" /\ stderr_chunks = <<>> /\ join_timed_out = FALSE
    /\ stdout_w = <<>> /\ stderr_w = <<>>
    /\ collector_kind = "none" /\ tui_made = FALSE /\ log = <<>>

\* main(), lines 416-422: worker_source for the provider
WorkerSource(p, args, stdin, cwd) ==
    LET prep == Prepare(p, args) IN
    IF p = "claude"
    THEN LET prompt_text == IF ReadsStdin(p, prep.use_bridge) THEN stdin ELSE <<>>
         IN  OrText(extract_worktree_from_prompt(prompt_text), cwd)
    ELSE OrText(TextOf(parse_codex_worktree(prep.args)),
                OrText(extract_worktree_from_prompt(TextOf(prep.prompt_text)), cwd))

\* main(): bridging applies; the BridgeConfig gets its worker_label
LabelBridge ==
    /\ lab_pc = "start"
    /\ Prepare(provider, lab_args).use_bridge
    /\ worker_source' = WorkerSource(provider, lab_args, lab_stdin, lab_cwd)
    /\ worker_label' = normalize_label(WorkerSource(provider, lab_args, lab_stdin, lab_cwd))
    /\ lab_pc' = "bridge"
    /\ UNCHANGED <<provider, plan, colvars, argvars, runvars, lab_args, lab_stdin, lab_cwd>>

\* main(): bridging does not apply; no label is made
LabelPassthrough ==
    /\ lab_pc = "start"
    /\ ~Prepare(provider, lab_args).use_bridge
    /\ worker_source' = WorkerSource(provider, lab_args, lab_stdin, lab_cwd)
    /\ lab_pc' = "passthrough"
    /\ UNCHANGED <<provider, plan, colvars, argvars, runvars, lab_args, lab_stdin, lab_cwd,
                   worker_label>>

NextLabel == LabelBridge \/ LabelPassthrough

SpecLabel == InitLabel /\ [][NextLabel]_vars

\* the source the priority order picks: the explicit workspace path (the token
\* after -C, Provider B only), else the path of a "Worktree: <path>" pattern of
\* the prompt, else the current working directory
FirstAvailableSource ==
    LET prep == Prepare(provider, lab_args)
        explicit == IF provider = "codex" THEN TextOf(parse_codex_worktree(prep.args))
                    ELSE <<>>
        prompt == IF provider = "codex" THEN TextOf(prep.prompt_text) ELSE lab_stdin
        pattern == extract_worktree_from_prompt(prompt)
    IN  IF explicit # <<>> THEN explicit
        ELSE IF pattern # <<>> THEN pattern
        ELSE lab_cwd

\* the final segment of a path
FinalSegment(path) == basename(RStripSlash(path))

\* how many dots a segment begins with
LeadingDots(seg) ==
    CHOOSE k \in 0..Len(seg) :
        /\ \A i \in 1..k : seg[i] = "."
        /\ k < Len(seg) => seg[k + 1] # "."

\* a segment without the dots it begins with
Undotted(seg) == SubSeq(seg, LeadingDots(seg) + 1, Len(seg))

\* C20 (as stated): the worker label comes from the first available source in
\* the order explicit workspace path, "Worktree: <path>" pattern of the prompt,
\* current working directory; it is the final segment of that path with all
\* leading dots stripped, or the placeholder when that is empty; it is never
\* empty and never begins with a dot ("Worktree: /a/b/.foo" gives "foo").
C20_LabelNeverDotted ==
    lab_pc = "bridge" =>
       /\ worker_source = FirstAvailableSource
       /\ worker_label = IF Undotted(FinalSegment(worker_source)) # <<>>
                         THEN Undotted(FinalSegment(worker_source))
                         ELSE Placeholder
       /\ worker_label # <<>> /\ worker_label[1] # "."
       /\ (provider = "claude" /\ lab_stdin = TextOf("go Worktree: /a/b/.foo now"))
             => worker_label = <<"f", "o", "o">>

\* C20 (amended): the worker label comes from the first available source in
\* the same order; it is the final segment of that path with all leading dots
\* stripped; when that is empty, the final segment itself, which is all dots;
\* when the final segment is empty, the placeholder.  It is never empty, and it
\* begins with a dot only when the final segment holds nothing but dots
\* ("Worktree: /a/b/.foo" gives "foo").
C20_LabelDottedOnlyForDots ==
    lab_pc = "bridge" =>
       /\ worker_source = FirstAvailableSource
       /\ worker_label = IF Undotted(FinalSegment(worker_source)) # <<>>
                         THEN Undotted(FinalSegment(worker_source))
                         ELSE IF FinalSegment(worker_source) # <<>>
                         THEN FinalSegment(worker_source)
                         ELSE Placeholder
       /\ worker_label # <<>>
       /\ worker_label[1] = "." =>
             /\ worker_label = FinalSegment(worker_source)
             /\ \A i \in 1..Len(worker_label) : worker_label[i] = "."
       /\ (provider = "claude" /\ lab_stdin = TextOf("go Worktree: /a/b/.foo now"))
             => worker_label = <<"f", "o", "o">>

\* the explicit path won over a pattern in the prompt, and its final segment
\* ".." became the label
C20_Witness ==
    /\ provider = "codex" /\ lab_pc = "bridge"
    /\ lab_args = <<"exec", "-C", "/a/..", "--", "go Worktree: /a/b/.foo now">>
    /\ worker_source = TextOf("/a/..")
    /\ worker_label = <<".", ".">>

=============================================================================
